---- MODULE Spec2Model ----
(***************************************************************************)
(* Telecheck: rubric-based quality audit of phone-sales transcripts.       *)
(*                                                                         *)
(* Three state machines share this module:                                 *)
(*   Spec      - run_quality_check_batch / _process_batch                  *)
(*               (src/src/utils/batch_processor.py)                        *)
(*   CheckSpec - QualityChecker.check / run_check and the record           *)
(*               constructors (src/src/quality_check/core.py)              *)
(*   TranscribeSpec - _process_transcription_files (src/src/ui/main_app.py)*)
(*               with transcribe_with_speaker_diarization and              *)
(*               format_transcript_with_speakers                           *)
(*               (src/src/api/assemblyai_client.py)                        *)
(*                                                                         *)
(* Python values.  A str is the sequence of its parts ("atoms"), so that   *)
(* concatenation is \o and the empty string is << >>.  Japanese literals   *)
(* of the source are written as ASCII atoms; the table below gives each.   *)
(*   "mondai_ari"            問題あり                                      *)
(*   "mondai_nashi"          問題なし                                      *)
(*   "mondai_ari_koumoku: "  問題あり項目:                                 *)
(*   "toku_ni_mondai_nashi"  特に問題は検出されませんでした                *)
(*   "kaiwa_kiroku_nashi"    会話記録なし                                  *)
(*   "shori_error"           処理エラー                                    *)
(*   "shori_error: "         処理エラー:                                   *)
(*   "[teleapo]"             [テレアポ担当者]                              *)
(*   "[kokyaku]"             [顧客]                                        *)
(*   "=== zentai_no_kaiwa ===" === 全体の会話 {size_info} ===               *)
(*   "mojiokoshi_kekka_nashi"  文字起こし結果が取得できませんでした。       *)
(***************************************************************************)
EXTENDS Naturals, Sequences, FiniteSets

VARIABLES
    \* ---- _process_batch / run_quality_check_batch
    pc,               \* "start" | "loop" | "done": position in run_quality_check_batch
    target_rows,      \* rows returned by get_target_rows, in store order
    batch_size,       \* batch_size argument
    checkers,         \* roster argument
    i,                \* number of rows the for-loop has iterated
    results_batch,    \* buffer of (row_index, result_json)
    total_processed,
    total_success,
    row_state,        \* per row: "pending" | "empty" | "raised" | "skipped" | "evaluated" | "failed"
    flushes,          \* calls of _update_spreadsheet_batch, in order
    completion_calls, \* per row: completion calls issued for it, in order
    reported,         \* ErrorHandler.handle_error contexts shown to the operator
    metrics,          \* calls of _update_metrics and of progress_bar.progress, in order
    \* ---- QualityChecker
    ck_in,            \* arguments and collaborator answers of one call
    ck_out,           \* what the call produced ("op" = "none" before it)
    \* ---- _process_transcription_files / transcribe_with_speaker_diarization
    tr_pc,            \* "idle" | "file" | "polling" | "done"
    total_files,      \* len(uploaded_files)
    file_i,           \* files the for-loop has finished
    transcript_status,\* transcript.status of the job of the current file
    elapsed,          \* time.time() - start_time, in seconds
    processed_files,
    error_files,
    file_results,     \* per file: how its iteration ended and what was written
    tmp_file,         \* the temporary audio file of the latest transcription call
    \* ---- format_transcript_with_speakers
    fmt_in,           \* the transcript and what the resolver settles on
    fmt_out           \* the agent tag and the formatted text ("op" = "none" before)

batch_vars == <<pc, target_rows, batch_size, checkers, i, results_batch,
                total_processed, total_success, row_state, flushes,
                completion_calls, reported, metrics>>
check_vars == <<ck_in, ck_out>>
transcribe_vars == <<tr_pc, total_files, file_i, transcript_status, elapsed,
                     processed_files, error_files, file_results, tmp_file>>
format_vars == <<fmt_in, fmt_out>>
vars == <<batch_vars, check_vars, transcribe_vars, format_vars>>

(***************************************************************************)
(* Bounds of the model.                                                    *)
(***************************************************************************)
MaxRows == 3        \* rows returned by get_target_rows
MaxBatchSize == 2   \* batch_size ranges over 1..MaxBatchSize
MaxTurns == 3       \* labelled lines of a stored transcript
MaxIssueSpan == 7   \* criteria the model response may mark, counted from the first
MaxFiles == 2       \* uploaded files of one transcription run
MaxUtterances == 4  \* utterances of a transcript handed to the formatter
MaxLiveFiles == 1   \* uploaded files of a run checked for termination

(***************************************************************************)
(* Python values                                                           *)
(***************************************************************************)
Str(a) == <<a>>
EMPTY == << >>
\* Python None: one atom no str is made of.
PyNone == <<"<None>">>
Truthy(v) == v # EMPTY /\ v # PyNone

\* the blank record holds None instead of the given value
DictOf_None(keys, v) == [k \in keys |-> PyNone]

\* dict literal {header: "" for header in keys}
DictOf(keys, v) == [k \in keys |-> v]

(***************************************************************************)
(* QualityChecker.SPREADSHEET_HEADERS, in definition order.                *)
(*   agent_name テレアポ担当者名    summary 報告まとめ                     *)
(*   gachakiri  ガチャ切りされた△                                         *)
(*   c01 社名や担当者名を名乗らない                                        *)
(*   c02 アプローチで販売店名、ソフト名の先出し   c03 同業他社の悪口等     *)
(*   c04 運転中や電車内でも無理やり続ける   c05 2回断られても食い下がる    *)
(*   c06 暴言・悪口・脅迫・逆上   c07 情報漏洩   c08 共犯（教唆・幇助）    *)
(*   c09 通話対応（無言電話／ガチャ切り）   c10 呼び方   c11 ロングコール  *)
(*   c12 当社の電話お断り   c13 しつこい・何度も電話がある                 *)
(*   c14 お客様専用電話番号と言われる   c15 口調を注意された               *)
(*   c16 怒らせた   c17 暴言を受けた   c18 通報する   c19 営業お断り       *)
(*   c20 事務員に対して代表者のことを「社長」「オーナー」「代表」          *)
(*   c21 一人称が「僕」「自分」「俺」                                      *)
(*   c22 「弊社」のことを「うち」「僕ら」と言う                            *)
(*   c23 謝罪が「すみません」「ごめんなさい」   c24 口調や態度が失礼       *)
(*   c25 会話が成り立っていない   c26 残債の「下取り」「買い取り」トーク   *)
(*   c27 嘘・真偽不明   c28 その他問題                                     *)
(***************************************************************************)
SPREADSHEET_HEADERS ==
    <<"agent_name", "summary", "gachakiri",
      "c01", "c02", "c03", "c04", "c05", "c06", "c07", "c08", "c09", "c10",
      "c11", "c12", "c13", "c14", "c15", "c16", "c17", "c18", "c19", "c20",
      "c21", "c22", "c23", "c24", "c25", "c26", "c27", "c28">>
HeaderSet == {SPREADSHEET_HEADERS[n] : n \in 1..Len(SPREADSHEET_HEADERS)}

ISSUE == Str("mondai_ari")
NO_ISSUE == Str("mondai_nashi")
NO_PROBLEM_SUMMARY == Str("toku_ni_mondai_nashi")
NO_CONVERSATION == Str("kaiwa_kiroku_nashi")

(***************************************************************************)
(* Transcript text: a sequence of atoms.  " " and "\n" are whitespace, the *)
(* two role labels are what format_transcript_with_speakers writes, every  *)
(* other atom is a run of non-whitespace characters.                       *)
(***************************************************************************)
Whitespace == {"SP", "NL"}
RoleLabels == {"[teleapo]", "[kokyaku]"}

\* str.strip() leaves nothing
StripIsEmpty(text) == \A n \in 1..Len(text) : text[n] \in Whitespace

\* first position >= p that is not whitespace (greedy \s*)
RECURSIVE SkipWhitespace(_, _)
SkipWhitespace(text, p) ==
    IF p <= Len(text) /\ text[p] \in Whitespace
    THEN SkipWhitespace(text, p + 1) ELSE p

\* first position >= p that is whitespace or past the end (greedy \S+)
RECURSIVE SkipNonWhitespace(_, _)
SkipNonWhitespace(text, p) ==
    IF p <= Len(text) /\ text[p] \notin Whitespace
    THEN SkipNonWhitespace(text, p + 1) ELSE p

\* len(re.findall(r'\[(?:テレアポ担当者|顧客)\]\s*\S+', text)), scanning from p:
\* leftmost, non-overlapping matches.
RECURSIVE FindallUtterances(_, _)
FindallUtterances(text, p) ==
    IF p > Len(text) THEN 0
    ELSE IF text[p] \in RoleLabels
         THEN LET q == SkipWhitespace(text, p + 1) IN
              IF q <= Len(text)
              THEN 1 + FindallUtterances(text, SkipNonWhitespace(text, q))
              ELSE FindallUtterances(text, p + 1)
         ELSE FindallUtterances(text, p + 1)

MIN_UTTERANCES == 3

IsConversationTooShort(raw_transcript) ==
    IF ~Truthy(raw_transcript) THEN TRUE
    ELSE FindallUtterances(raw_transcript, 1) < MIN_UTTERANCES

(***************************************************************************)
(* QualityChecker._detect_gachakiri.  Each pattern is the atom of the      *)
(* phrase it matches:                                                      *)
(*   gachakiri ガチャ切り / denwa_wo_kirare 電話を切られ /                 *)
(*   ippouteki_ni_kiri 一方的に切 / tochuu_de_kiri 途中で切 /              *)
(*   kaiwa_ga_tochuu_de_shuuryou 会話が途中で終了 /                        *)
(*   tsuuwa_ga_setsudan 通話が切断 / totsuzen_shuuryou 突然終了 /          *)
(*   mugon_de_kiri 無言で切                                                *)
(*   shitsurei_itashimasu 失礼[しい]たします /                             *)
(*   arigatou_gozaimashita ありがとうございました /                        *)
(*   ojikan_wo_itadaki お時間をいただき                                    *)
(***************************************************************************)
gachakiri_patterns ==
    {"gachakiri", "denwa_wo_kirare", "ippouteki_ni_kiri", "tochuu_de_kiri",
     "kaiwa_ga_tochuu_de_shuuryou", "tsuuwa_ga_setsudan", "totsuzen_shuuryou",
     "mugon_de_kiri"}
normal_end_patterns ==
    {"shitsurei_itashimasu", "arigatou_gozaimashita", "ojikan_wo_itadaki"}

\* any(re.search(p, text) for p in patterns)
AnySearch(patterns, text) == \E n \in 1..Len(text) : text[n] \in patterns

\* the heuristic never fires
DetectGachakiri_Never(text) == FALSE

DetectGachakiri(text) ==
    IF AnySearch(normal_end_patterns, text) THEN FALSE
    ELSE AnySearch(gachakiri_patterns, text)

(***************************************************************************)
(* Text of a chat completion and JSON.  A response text is known by its    *)
(* kind; the text of a JSON object also by the object it denotes.          *)
(*   "none"          chat_with_retry returned None                         *)
(*   "empty"         ""                                                    *)
(*   "check_failed"  "チェック失敗"                                        *)
(*   "prose"         text json.loads rejects                               *)
(*   "json_array"    valid JSON that is not an object                      *)
(*   "json_object"   a JSON object                                         *)
(***************************************************************************)
NoDict == [k \in {} |-> EMPTY]
Text(kind) == [kind |-> kind, obj |-> NoDict]
NoText == Text("absent")

\* json.dumps(d, ensure_ascii=False, indent=2)
JsonDumps(d) == [kind |-> "json_object", obj |-> d]

\* Exceptions: the class, str(e) and the response text embedded in the message.
Exc(type, text, response) == [type |-> type, text |-> text, response |-> response]
NoExc == Exc("none", EMPTY, NoText)

\* json.loads(response): the value, or json.JSONDecodeError
JsonLoads(response) ==
    IF response.kind \in {"json_object", "json_array"}
    THEN [ok |-> TRUE, is_dict |-> response.kind = "json_object", value |-> response.obj]
    ELSE [ok |-> FALSE, is_dict |-> FALSE, value |-> NoDict]

\* QualityChecker._parse_json_response; the message of the raised Exception is
\* f"JSON解析エラー: {e}。応答: {response}"
ParseJsonResponse(response) ==
    LET loaded == JsonLoads(response) IN
    IF loaded.ok
    THEN [raised |-> FALSE, is_dict |-> loaded.is_dict, value |-> loaded.value, exc |-> NoExc]
    ELSE [raised |-> TRUE, is_dict |-> FALSE, value |-> NoDict,
          exc |-> Exc("Exception", <<"json_kaiseki_error: ", "outou: ", "<response>">>, response)]

(***************************************************************************)
(* QualityChecker._create_summary_report                                   *)
(***************************************************************************)
SUMMARY_LIMIT == 5
SUMMARY_EXCLUDED == {"summary", "agent_name", "gachakiri"}

\* ', '.join(items)
RECURSIVE Join(_)
Join(items) ==
    IF items = << >> THEN EMPTY
    ELSE IF Len(items) = 1 THEN Str(items[1])
    ELSE Str(items[1]) \o Str(", ") \o Join(Tail(items))

\* items[:n]
Take(items, n) == SubSeq(items, 1, IF Len(items) < n THEN Len(items) ELSE n)

\* the slice taken before the exclusion instead of after it
CreateSummaryReport_SliceFirst(result) ==
    LET IsProblem(h) == h \in DOMAIN result /\ result[h] = ISSUE
        problems == SelectSeq(SPREADSHEET_HEADERS, IsProblem)
        Kept(p) == p \notin SUMMARY_EXCLUDED
        problem_items == SelectSeq(Take(problems, SUMMARY_LIMIT), Kept)
    IN  IF problem_items # << >>
        THEN Str("mondai_ari_koumoku: ") \o Join(problem_items)
        ELSE NO_PROBLEM_SUMMARY

CreateSummaryReport(result) ==
    LET IsProblem(h) == h \in DOMAIN result /\ result[h] = ISSUE
        \* result.items() runs in insertion order, which is the header order
        problems == SelectSeq(SPREADSHEET_HEADERS, IsProblem)
        Kept(p) == p \notin SUMMARY_EXCLUDED
        problem_items == SelectSeq(problems, Kept)
    IN  IF problems # << >> /\ problem_items # << >>
        THEN Str("mondai_ari_koumoku: ") \o Join(Take(problem_items, SUMMARY_LIMIT))
        ELSE NO_PROBLEM_SUMMARY

(***************************************************************************)
(* QualityChecker._format_for_spreadsheet                                  *)
(***************************************************************************)
\* the copy loop without its "if key in final_result" test
CopyJudgements_AllKeys(final_result, parsed_result) ==
    [k \in DOMAIN final_result \cup DOMAIN parsed_result |->
        IF k \in DOMAIN parsed_result THEN parsed_result[k] ELSE final_result[k]]

\* for key, value in parsed_result.items(): if key in final_result: ...
CopyJudgements(final_result, parsed_result) ==
    [k \in DOMAIN final_result |->
        IF k \in DOMAIN parsed_result THEN parsed_result[k] ELSE final_result[k]]

\* the agent name of the model is kept when a name was resolved
FormatForSpreadsheet_TrustsModel(parsed_result, original_text, checker_name) ==
    LET blank == DictOf(HeaderSet, EMPTY)
        copied == CopyJudgements(blank, parsed_result)
        summed == [copied EXCEPT !["summary"] = CreateSummaryReport(copied)]
    IN  IF DetectGachakiri(original_text)
        THEN [summed EXCEPT !["gachakiri"] = ISSUE] ELSE summed

FormatForSpreadsheet(parsed_result, original_text, checker_name) ==
    LET blank == DictOf(HeaderSet, EMPTY)
        copied == CopyJudgements(blank, parsed_result)
        named == IF Truthy(checker_name)
                 THEN [copied EXCEPT !["agent_name"] = checker_name] ELSE copied
        summed == [named EXCEPT !["summary"] = CreateSummaryReport(named)]
    IN  IF DetectGachakiri(original_text)
        THEN [summed EXCEPT !["gachakiri"] = ISSUE] ELSE summed

\* QualityChecker._create_error_fallback
CreateErrorFallback(error_message) ==
    LET blank == DictOf(HeaderSet, EMPTY)
        named == [blank EXCEPT !["agent_name"] = Str("shori_error")]
    IN  JsonDumps([named EXCEPT !["summary"] = Str("shori_error: ") \o error_message])

\* the gate hands back nothing for a short conversation
CreateNoConversationResult_Nothing == NoText

\* batch_processor._create_no_conversation_result
CreateNoConversationResult ==
    JsonDumps([DictOf(HeaderSet, EMPTY) EXCEPT !["summary"] = NO_CONVERSATION])

(***************************************************************************)
(* The completion port.  chat_with_retry and extract_checker_name are not  *)
(* part of the sources at hand; what they may answer is taken from the     *)
(* design document (sections 4.2 and 4.6).                                 *)
(***************************************************************************)
\* One completion call as the provider saw it: its purpose and the agent name
\* written into the system prompt (EMPTY when the plain SYSTEM_PROMPT is sent).
Call(purpose, name_in_prompt) == [purpose |-> purpose, name_in_prompt |-> name_in_prompt]

\* extract_checker_name(text, checkers, client): the model's pick, "" when it
\* has none or when the completion port failed (the failure is swallowed).
ExtractCheckerName(name_answer) ==
    [raised |-> FALSE,
     name |-> IF name_answer.failed THEN EMPTY ELSE name_answer.name,
     exc |-> NoExc]

\* chat_with_retry(client, system_prompt, user_prompt, response_format): the
\* response text, or APIError once the retries are exhausted.
ChatWithRetry(api_answer) ==
    IF api_answer.failed
    THEN [raised |-> TRUE, response |-> NoText,
          exc |-> Exc("APIError", Str("retries_exhausted"), NoText)]
    ELSE [raised |-> FALSE, response |-> api_answer.response, exc |-> NoExc]

(***************************************************************************)
(* QualityChecker.check                                                    *)
(***************************************************************************)
Returned(has_record, record, calls) ==
    [kind |-> "return", has_record |-> has_record, record |-> record,
     exc |-> NoExc, calls |-> calls]
Raised(exc, calls) ==
    [kind |-> "raise", has_record |-> FALSE, record |-> NoDict,
     exc |-> exc, calls |-> calls]

\* the sentence naming the agent is written even when no name was resolved
PromptWithChecker_Unconditional(checker_name) ==
    IF Truthy(checker_name) THEN checker_name ELSE Str("<no name>")

\* every rubric call is sent with the plain SYSTEM_PROMPT
PromptWithChecker_Plain(checker_name) == EMPTY

\* prompt_with_checker: the name written in front of SYSTEM_PROMPT, if any
PromptWithChecker(checker_name) ==
    IF Truthy(checker_name) THEN checker_name ELSE EMPTY

Check(text_input, roster, name_answer, api_answer) ==
    IF ~Truthy(text_input) \/ StripIsEmpty(text_input)
    THEN Returned(FALSE, NoDict, << >>)                      \* return None
    ELSE
    LET \* if checkers: checker_name = extract_checker_name(...)
        resolved == IF roster # << >> THEN ExtractCheckerName(name_answer)
                    ELSE [raised |-> FALSE, name |-> EMPTY, exc |-> NoExc]
        checker_name == resolved.name
        name_calls == IF roster # << >> THEN <<Call("name", EMPTY)>> ELSE << >>
        \* the rubric call is issued once the name call has returned
        calls == Append(name_calls, Call("rubric", PromptWithChecker(checker_name)))
        answer == ChatWithRetry(api_answer)
        raw_response == answer.response
        parsed == ParseJsonResponse(raw_response)
    IN  IF resolved.raised THEN Raised(resolved.exc, name_calls)   \* except ...: raise e
        ELSE IF answer.raised THEN Raised(answer.exc, calls)
        ELSE IF raw_response.kind \in {"none", "empty", "check_failed"}
        THEN Raised(Exc("Exception", Str("outou_ga_kara_ka_shippai"), NoText), calls)
        ELSE IF parsed.raised THEN Raised(parsed.exc, calls)
        ELSE IF ~parsed.is_dict
        \* parsed_result.items() on a list
        THEN Raised(Exc("AttributeError", Str("no_attribute_items"), NoText), calls)
        ELSE Returned(TRUE, FormatForSpreadsheet(parsed.value, text_input, checker_name), calls)

\* QualityChecker.run_check: the interactive wrapper; always a JSON string
RunCheck(text_input, roster, name_answer, api_answer) ==
    IF ~Truthy(text_input) \/ StripIsEmpty(text_input)
    THEN CreateErrorFallback(Str("nyuuryoku_text_ga_kara"))
    ELSE LET result == Check(text_input, roster, name_answer, api_answer) IN
         IF result.kind = "raise" THEN CreateErrorFallback(result.exc.text)
         ELSE JsonDumps(result.record)

(***************************************************************************)
(* Inputs: transcripts, rosters and what the completion port answers.      *)
(***************************************************************************)
\* one line written by format_transcript_with_speakers: f"[{label}] {text}\n"
Line(label, body) == <<label, "SP">> \o body \o <<"NL">>

Roster == <<"suzuki", "tanaka">>
Rosters == {<< >>, Roster}

NameAnswers ==
    {[failed |-> TRUE, name |-> EMPTY],
     [failed |-> FALSE, name |-> EMPTY],
     [failed |-> FALSE, name |-> Str("suzuki")]}

\* criteria a response may mark: the first MaxIssueSpan - 1 criteria and the last
Criteria == SelectSeq(SPREADSHEET_HEADERS, LAMBDA h : h \notin SUMMARY_EXCLUDED)
IssueCandidates ==
    {Criteria[n] : n \in 1..(MaxIssueSpan - 1)} \cup {Criteria[Len(Criteria)]}

\* A JSON object of the model: `issues` are the criteria at 問題あり, `special`
\* the non-criterion headers it also sets to 問題あり, and `shape` what else it
\* holds: nothing, a key outside the header set, or every other header filled.
ModelObject(issues, special, shape) ==
    LET marked == issues \cup special
        keys == CASE shape = "bare" -> marked
                  [] shape = "extra" -> marked \cup {"unknown_key"}
                  [] OTHER -> HeaderSet
    IN  [k \in keys |->
            IF k \in marked THEN ISSUE
            ELSE IF k = "agent_name" THEN Str("tanaka")
            ELSE IF k = "summary" THEN Str("model_summary")
            ELSE IF k = "unknown_key" THEN Str("model_note")
            ELSE NO_ISSUE]

ModelObjects ==
    {ModelObject(issues, special, shape) :
        issues \in SUBSET IssueCandidates,
        special \in SUBSET SUMMARY_EXCLUDED,
        shape \in {"bare", "extra", "filled"}}

ApiAnswer(failed, response) == [failed |-> failed, response |-> response]
FailingAnswers ==
    {ApiAnswer(TRUE, NoText)} \cup
    {ApiAnswer(FALSE, Text(kind)) :
        kind \in {"none", "empty", "check_failed", "prose", "json_array"}}
ApiAnswers == FailingAnswers \cup {ApiAnswer(FALSE, JsonDumps(obj)) : obj \in ModelObjects}

PlainLine == Line("[teleapo]", <<"moshimoshi">>)
AbruptLine == Line("[teleapo]", <<"denwa_wo_kirare", "mashita">>)
PoliteLine == Line("[teleapo]", <<"arigatou_gozaimashita">>)
CheckLines == {PlainLine, AbruptLine, PoliteLine}

\* texts handed to QualityChecker: None, "", blank, one line of each kind, and
\* an abrupt ending together with a polite one, in either order
CheckTexts ==
    {PyNone, EMPTY, <<"SP", "NL">>} \cup CheckLines \cup
    {AbruptLine \o PoliteLine, PoliteLine \o AbruptLine}

(***************************************************************************)
(* CheckSpec: one call of QualityChecker.check, of QualityChecker.run_check *)
(* or of the short-conversation substitution, on drawn inputs.             *)
(***************************************************************************)
NoOutcome == Returned(FALSE, NoDict, << >>)
CheckIdle ==
    /\ ck_in = [text |-> EMPTY, roster |-> << >>,
                name_answer |-> [failed |-> FALSE, name |-> EMPTY],
                api_answer |-> ApiAnswer(TRUE, NoText)]
    /\ ck_out = [op |-> "idle", outcome |-> NoOutcome, json |-> NoText]

BatchIdle ==
    /\ pc = "idle" /\ target_rows = << >> /\ batch_size = 1 /\ checkers = << >>
    /\ i = 0 /\ results_batch = << >> /\ total_processed = 0 /\ total_success = 0
    /\ row_state = << >> /\ flushes = << >> /\ completion_calls = << >>
    /\ reported = << >> /\ metrics = << >>

\* the temporary file: whether NamedTemporaryFile made it, whether its name
\* reached tmp_file_path, whether it is on disk
TmpFile(created, recorded, exists) ==
    [created |-> created, recorded |-> recorded, exists |-> exists]
NoTmpFile == TmpFile(FALSE, FALSE, FALSE)

\* no file is being transcribed
TranscribeIdle ==
    /\ tr_pc = "idle" /\ total_files = 0 /\ file_i = 0
    /\ transcript_status = "none" /\ elapsed = 0
    /\ processed_files = 0 /\ error_files = 0 /\ file_results = << >>
    /\ tmp_file = NoTmpFile

\* detect_teleapo_speaker found no speaker (None or "")
NoTag == "<None>"
NoFormatted == [teleapo_speaker |-> NoTag, formatted_transcript |-> EMPTY]

\* no transcript is being formatted
FormatIdle ==
    /\ fmt_in = [utterances |-> << >>, pick |-> NoTag]
    /\ fmt_out = [op |-> "idle", result |-> NoFormatted]

CheckInit ==
    /\ BatchIdle
    /\ TranscribeIdle
    /\ FormatIdle
    /\ ck_in \in [text : CheckTexts, roster : Rosters,
                  name_answer : NameAnswers, api_answer : ApiAnswers]
    /\ ck_in.roster = << >> => ck_in.name_answer = [failed |-> FALSE, name |-> EMPTY]
    /\ ck_out = [op |-> "none", outcome |-> NoOutcome, json |-> NoText]

CallCheck ==
    /\ ck_out.op = "none"
    /\ ck_out' = [op |-> "check",
                  outcome |-> Check(ck_in.text, ck_in.roster, ck_in.name_answer, ck_in.api_answer),
                  json |-> NoText]
    /\ UNCHANGED <<ck_in, batch_vars, transcribe_vars, format_vars>>

CallRunCheck ==
    /\ ck_out.op = "none"
    /\ ck_out' = [op |-> "run_check", outcome |-> NoOutcome,
                  json |-> RunCheck(ck_in.text, ck_in.roster, ck_in.name_answer, ck_in.api_answer)]
    /\ UNCHANGED <<ck_in, batch_vars, transcribe_vars, format_vars>>

\* _process_batch lines 134-135 on a transcript that reached the gate
CallNoConversation ==
    /\ ck_out.op = "none"
    /\ Truthy(ck_in.text)
    /\ IsConversationTooShort(ck_in.text)
    /\ ck_out' = [op |-> "no_conversation", outcome |-> NoOutcome,
                  json |-> CreateNoConversationResult]
    /\ UNCHANGED <<ck_in, batch_vars, transcribe_vars, format_vars>>

CheckNext == CallCheck \/ CallRunCheck \/ CallNoConversation
CheckSpec == CheckInit /\ [][CheckNext]_vars

(***************************************************************************)
(* batch_processor: the two functions wrapped by @safe_execute.  The       *)
(* wrapper turns an exception into a report to the operator and None.      *)
(***************************************************************************)
QUALITY_CHECK_CONTEXT == "hinshitsu_check_jikkou"        \* 品質チェック実行
SHEET_UPDATE_CONTEXT == "spreadsheet_koushin"            \* スプレッドシート更新
BATCH_CONTEXT == "batch_shori"                           \* バッチ処理
ROW_CONTEXT == "gyou_no_shori"                           \* 行 {row_index} の処理

\* a check that raised is run a second time
ExecuteQualityCheck_Retrying(raw_transcript, roster, name_answer, api_answer) ==
    LET result == Check(raw_transcript, roster, name_answer, api_answer) IN
    IF result.kind = "raise"
    THEN [result_json |-> NoText, reported |-> <<QUALITY_CHECK_CONTEXT>>,
          calls |-> result.calls \o result.calls]
    ELSE IF result.has_record
    THEN [result_json |-> JsonDumps(result.record), reported |-> << >>, calls |-> result.calls]
    ELSE [result_json |-> NoText, reported |-> << >>, calls |-> result.calls]

\* _execute_quality_check under @safe_execute("品質チェック実行")
ExecuteQualityCheck(raw_transcript, roster, name_answer, api_answer) ==
    LET result == Check(raw_transcript, roster, name_answer, api_answer) IN
    IF result.kind = "raise"
    THEN [result_json |-> NoText, reported |-> <<QUALITY_CHECK_CONTEXT>>, calls |-> result.calls]
    ELSE IF result.has_record
    THEN [result_json |-> JsonDumps(result.record), reported |-> << >>, calls |-> result.calls]
    ELSE [result_json |-> NoText, reported |-> << >>, calls |-> result.calls]

SLEEP_AFTER_WRITE == 1
SLEEP_AFTER_ERROR == 2

\* no pause after a write that failed
UpdateSpreadsheetBatch_NoPauseOnError(batch, store_ok) ==
    IF store_ok
    THEN [records |-> batch, ok |-> TRUE, slept |-> SLEEP_AFTER_WRITE, reported |-> << >>]
    ELSE [records |-> batch, ok |-> FALSE, slept |-> 0,
          reported |-> <<SHEET_UPDATE_CONTEXT>>]

\* _update_spreadsheet_batch under @safe_execute("スプレッドシート更新"):
\* update_quality_check_results succeeds or raises; either way the call returns.
UpdateSpreadsheetBatch(batch, store_ok) ==
    IF store_ok
    THEN [records |-> batch, ok |-> TRUE, slept |-> SLEEP_AFTER_WRITE, reported |-> << >>]
    ELSE [records |-> batch, ok |-> FALSE, slept |-> SLEEP_AFTER_ERROR,
          reported |-> <<SHEET_UPDATE_CONTEXT>>]

(***************************************************************************)
(* Rows of the store.  A cell is "", a transcript, or a value that is not  *)
(* a str (re.findall raises TypeError on it).                              *)
(***************************************************************************)
NotAStr == <<"<not-a-str>">>

\* n labelled lines, the roles alternating
RECURSIVE Turns(_, _)
Turns(n, body) ==
    IF n = 0 THEN EMPTY
    ELSE Turns(n - 1, body) \o
         Line(IF n % 2 = 1 THEN "[teleapo]" ELSE "[kokyaku]", body)

StoredTranscripts ==
    {Turns(n, <<"hai">>) : n \in 0..MaxTurns} \cup
    {Turns(MaxTurns, << >>), <<"SP", "NL">>, NotAStr}

Row(row_index, transcript) == [row_index |-> row_index, transcript |-> transcript]

\* get_target_rows: (row_index, row) pairs in store order; row 1 is the header
TargetRows(n) ==
    {[k \in 1..n |-> Row(k + 1, cells[k])] : cells \in [1..n -> StoredTranscripts]}

\* a JSON object whose value for one criterion is free text (要確認)
FreeTextObject ==
    [k \in {"c01", "c02"} |-> IF k = "c01" THEN ISSUE ELSE Str("you_kakunin")]

\* what the completion port answers while a batch runs
BatchObjects ==
    {ModelObject({}, {}, "filled"), ModelObject({"c01"}, {}, "extra"), FreeTextObject}
BatchApiAnswers ==
    FailingAnswers \cup {ApiAnswer(FALSE, JsonDumps(obj)) : obj \in BatchObjects}
BatchNameAnswers == {[failed |-> FALSE, name |-> Str("suzuki")]}

(***************************************************************************)
(* run_quality_check_batch                                                 *)
(***************************************************************************)
BatchInit ==
    /\ CheckIdle
    /\ TranscribeIdle
    /\ FormatIdle
    /\ pc = "start"
    /\ \E n \in 0..MaxRows : target_rows \in TargetRows(n)
    /\ batch_size \in 1..MaxBatchSize
    /\ checkers = Roster
    /\ i = 0
    /\ results_batch = << >>
    /\ total_processed = 0
    /\ total_success = 0
    /\ row_state = [k \in 1..Len(target_rows) |-> "pending"]
    /\ flushes = << >>
    /\ completion_calls = [k \in 1..Len(target_rows) |-> << >>]
    /\ reported = << >>
    /\ metrics = << >>

loop_vars == <<i, results_batch, total_processed, total_success, row_state,
               flushes, completion_calls, metrics>>

\* an exception of the run reaches the caller
RunOutcome_Propagates(raised) == IF raised THEN "raised" ELSE "done"

\* lines 21 and 51-52: where run_quality_check_batch stands once its body is
\* left, by return or by an exception ("raised" would be an exception leaving
\* the function)
RunOutcome(raised) == "done"

\* get_target_rows raises: caught at line 51
GetTargetRowsFails ==
    /\ pc = "start"
    /\ pc' = RunOutcome(TRUE)
    /\ reported' = Append(reported, BATCH_CONTEXT)
    /\ UNCHANGED <<target_rows, batch_size, checkers, loop_vars, check_vars, transcribe_vars, format_vars>>

\* lines 25-27
NoTargetRows ==
    /\ pc = "start"
    /\ target_rows = << >>
    /\ pc' = "done"
    /\ UNCHANGED <<target_rows, batch_size, checkers, loop_vars, reported, check_vars, transcribe_vars, format_vars>>

\* sheets_client.open / spreadsheet.worksheet raises: caught at line 51
OpenSheetFails ==
    /\ pc = "start"
    /\ target_rows # << >>
    /\ pc' = RunOutcome(TRUE)
    /\ reported' = Append(reported, BATCH_CONTEXT)
    /\ UNCHANGED <<target_rows, batch_size, checkers, loop_vars, check_vars, transcribe_vars, format_vars>>

\* lines 30-49: the call of _process_batch
StartProcessBatch ==
    /\ pc = "start"
    /\ target_rows # << >>
    /\ pc' = "loop"
    /\ UNCHANGED <<target_rows, batch_size, checkers, loop_vars, reported, check_vars, transcribe_vars, format_vars>>

(***************************************************************************)
(* _process_batch: one action per way an iteration of the for-loop runs.   *)
(***************************************************************************)
\* where the loop stands after the iteration of row k
AfterRow(k) == IF k = Len(target_rows) THEN "done" ELSE "loop"

\* lines 125-126: if not raw_transcript: continue
RowEmpty ==
    /\ pc = "loop"
    /\ ~Truthy(target_rows[i + 1].transcript)
    /\ i' = i + 1
    /\ row_state' = [row_state EXCEPT ![i + 1] = "empty"]
    /\ pc' = AfterRow(i + 1)
    /\ UNCHANGED <<target_rows, batch_size, checkers, results_batch, total_processed,
                   total_success, flushes, completion_calls, reported, metrics,
                   check_vars, transcribe_vars, format_vars>>

\* line 134 raises on a cell that is not a str; lines 166-168 catch it
RowRaises ==
    /\ pc = "loop"
    /\ target_rows[i + 1].transcript = NotAStr
    /\ i' = i + 1
    /\ row_state' = [row_state EXCEPT ![i + 1] = "raised"]
    /\ reported' = Append(reported, ROW_CONTEXT)
    /\ pc' = AfterRow(i + 1)
    /\ UNCHANGED <<target_rows, batch_size, checkers, results_batch, total_processed,
                   total_success, flushes, completion_calls, metrics, check_vars, transcribe_vars, format_vars>>

\* line 150 and lines 159-164: what the operator is shown after row k
ProgressEvent(k, processed, success) ==
    [after_row |-> k, processed |-> processed, success |-> success,
     total |-> Len(target_rows), done |-> k]

\* the new record is put in front of the buffer
AppendResult_InFront(results, row_index, result_json) ==
    <<<<row_index, result_json>>>> \o results

\* line 142: results_batch.append((row_index, result_json))
AppendResult(results, row_index, result_json) ==
    Append(results, <<row_index, result_json>>)

\* the buffer is flushed at the final row only
FlushDue_AtFinalRowOnly(batch, k) == k = Len(target_rows) /\ batch # << >>

\* lines 153-154: the flush test after row k
FlushDue(batch, k) ==
    (Len(batch) >= batch_size \/ k = Len(target_rows)) /\ batch # << >>

\* a batch whose write failed stays in the buffer
BufferAfterFlush_KeepsFailed(batch, update) == IF update.ok THEN << >> ELSE batch

\* line 156: results_batch = [], whatever _update_spreadsheet_batch returned
BufferAfterFlush(batch, update) == << >>

\* lines 141-164 for row k, given what lines 134-139 produced
LoopTail(k, result_json, state, calls, errors) ==
    LET appended == result_json.kind # "absent"                \* if result_json:
        batch == IF appended
                 THEN AppendResult(results_batch, target_rows[k].row_index, result_json)
                 ELSE results_batch
        due == FlushDue(batch, k)
    IN  /\ total_success' = IF appended THEN total_success + 1 ELSE total_success
        /\ total_processed' = total_processed + 1
        /\ metrics' = Append(metrics, ProgressEvent(k, total_processed', total_success'))
        /\ row_state' = [row_state EXCEPT ![k] = state]
        /\ completion_calls' = [completion_calls EXCEPT ![k] = @ \o calls]
        /\ i' = k
        /\ pc' = AfterRow(k)
        /\ IF due
           THEN \E store_ok \in BOOLEAN :
                    LET update == UpdateSpreadsheetBatch(batch, store_ok) IN
                    /\ flushes' = Append(flushes,
                          [records |-> update.records, ok |-> update.ok,
                           slept |-> update.slept, after_row |-> k])
                    /\ reported' = reported \o errors \o update.reported
                    /\ results_batch' = BufferAfterFlush(batch, update)
           ELSE /\ flushes' = flushes
                /\ reported' = reported \o errors
                /\ results_batch' = batch
        /\ UNCHANGED <<target_rows, batch_size, checkers, check_vars, transcribe_vars, format_vars>>

\* lines 134-136: the gate substitutes the no-conversation record
RowShort ==
    /\ pc = "loop"
    /\ LET raw_transcript == target_rows[i + 1].transcript IN
       /\ Truthy(raw_transcript)
       /\ raw_transcript # NotAStr
       /\ IsConversationTooShort(raw_transcript)
       /\ LoopTail(i + 1, CreateNoConversationResult, "skipped", << >>, << >>)

\* lines 137-139: _execute_quality_check
RowEvaluate ==
    /\ pc = "loop"
    /\ LET raw_transcript == target_rows[i + 1].transcript IN
       /\ Truthy(raw_transcript)
       /\ raw_transcript # NotAStr
       /\ ~IsConversationTooShort(raw_transcript)
       /\ \E name_answer \in BatchNameAnswers, api_answer \in BatchApiAnswers :
            LET run == ExecuteQualityCheck(raw_transcript, checkers, name_answer, api_answer) IN
            LoopTail(i + 1, run.result_json,
                     IF run.result_json.kind = "absent" THEN "failed" ELSE "evaluated",
                     run.calls, run.reported)

Next ==
    \/ GetTargetRowsFails
    \/ NoTargetRows
    \/ OpenSheetFails
    \/ StartProcessBatch
    \/ RowEmpty
    \/ RowRaises
    \/ RowShort
    \/ RowEvaluate

Init == BatchInit
Spec == Init /\ [][Next]_vars

(***************************************************************************)
(* Speaker roles and format_transcript_with_speakers.  An utterance is its *)
(* speaker tag and its text; the transcription service names the speakers  *)
(* "A", "B", ... in the order in which they first speak.                   *)
(***************************************************************************)
SpeakerTags == <<"A", "B", "C">>
TagIndex(tag) == CHOOSE n \in 1..Len(SpeakerTags) : SpeakerTags[n] = tag
Utterance(speaker, text) == [speaker |-> speaker, text |-> text]
Speakers(utterances) == {utterances[n].speaker : n \in 1..Len(utterances)}

UNKNOWN_TAG == "unknown"
FALLBACK_SPEAKER == "A"

\* detect_teleapo_speaker(transcript_result): one of the transcript's tags, the
\* sentinel when there is no utterance; `pick` is what its scoring settles on,
\* NoTag when it settles on nothing.
DetectTeleapoSpeaker(utterances, pick) ==
    IF utterances = << >> THEN UNKNOWN_TAG ELSE pick

\* the caller keeps whatever the resolver answered
TeleapoSpeaker_NoFallback(answer) == answer

\* detect_teleapo_speaker(transcript_result) or "A"
TeleapoSpeaker(answer) == IF answer = NoTag THEN FALLBACK_SPEAKER ELSE answer

\* get_speaker_label, with the brackets format_transcript_with_speakers puts
\* around the label
GetSpeakerLabel(speaker, teleapo_speaker) ==
    IF speaker = teleapo_speaker THEN "[teleapo]" ELSE "[kokyaku]"

NO_TRANSCRIPT_TEXT == Str("mojiokoshi_kekka_nashi")

RECURSIVE RawConversation(_, _)
RawConversation(utterances, teleapo_speaker) ==
    IF utterances = << >> THEN EMPTY
    ELSE Line(GetSpeakerLabel(Head(utterances).speaker, teleapo_speaker),
              Head(utterances).text)
         \o RawConversation(Tail(utterances), teleapo_speaker)

FormatTranscriptWithSpeakers(utterances, teleapo_speaker) ==
    IF utterances = << >> THEN NO_TRANSCRIPT_TEXT
    ELSE <<"=== zentai_no_kaiwa ===", "NL">> \o RawConversation(utterances, teleapo_speaker)

\* lines 174-182 of _process_transcription_files
FormatUploaded(utterances, pick) ==
    LET teleapo_speaker == TeleapoSpeaker(DetectTeleapoSpeaker(utterances, pick))
    IN  [teleapo_speaker |-> teleapo_speaker,
         formatted_transcript |-> FormatTranscriptWithSpeakers(utterances, teleapo_speaker)]

\* speaker tags in the order of first appearance
InOrderOfAppearance(tags) ==
    \A n \in 1..Len(tags) :
        \/ TagIndex(tags[n]) = 1
        \/ \E m \in 1..(n - 1) : TagIndex(tags[m]) = TagIndex(tags[n]) - 1

TagSequences(n) ==
    {tags \in [1..n -> {SpeakerTags[t] : t \in 1..Len(SpeakerTags)}] :
        InOrderOfAppearance(tags)}

\* transcripts of at most MaxUtterances utterances
Transcripts ==
    UNION {{[n \in 1..len |-> Utterance(tags[n], <<"hai">>)] : tags \in TagSequences(len)} :
              len \in 0..MaxUtterances}

\* what the scoring of detect_teleapo_speaker may settle on
Picks(utterances) == Speakers(utterances) \cup {NoTag}

(***************************************************************************)
(* FormatSpec: the resolver, the fallback and format_transcript_with_      *)
(* speakers applied to one drawn transcript.                               *)
(***************************************************************************)
FormatInit ==
    /\ BatchIdle /\ CheckIdle /\ TranscribeIdle
    /\ \E utterances \in Transcripts : \E pick \in Picks(utterances) :
          fmt_in = [utterances |-> utterances, pick |-> pick]
    /\ fmt_out = [op |-> "none", result |-> NoFormatted]

CallFormatUploaded ==
    /\ fmt_out.op = "none"
    /\ fmt_out' = [op |-> "format",
                   result |-> FormatUploaded(fmt_in.utterances, fmt_in.pick)]
    /\ UNCHANGED <<fmt_in, batch_vars, check_vars, transcribe_vars>>

FormatNext == CallFormatUploaded
FormatSpec == FormatInit /\ [][FormatNext]_vars

(***************************************************************************)
(* transcribe_with_speaker_diarization                                     *)
(***************************************************************************)
polling_interval == 3
timeout == 1800

PendingStatuses == {"queued", "processing"}
TranscriptStatuses == PendingStatuses \cup {"completed", "error"}

\* a status poll may itself take long
PollLatencies == {0, timeout}

\* the loop has no timeout test
TranscribeStep_NoTimeout(status, waited) ==
    IF status \in PendingStatuses THEN "poll"
    ELSE IF status = "error" THEN "error" ELSE "completed"

\* what the job of a file stands at: lines 86-106
TranscribeStep(status, waited) ==
    IF status \in PendingStatuses
    THEN IF waited > timeout THEN "timeout" ELSE "poll"
    ELSE IF status = "error" THEN "error" ELSE "completed"

\* an Error status or a timeout still hands a result to the caller
TranscribeReturns_AlwaysResult(step) == "result"

\* what transcribe_with_speaker_diarization returns once the loop is left
TranscribeReturns(step) ==
    IF step \in {"timeout", "error", "exception"} THEN "None" ELSE "result"

(***************************************************************************)
(* _process_transcription_files                                            *)
(***************************************************************************)
FileResult(state, cause, returned, formatted) ==
    [state |-> state, cause |-> cause, returned |-> returned, formatted |-> formatted]
PendingFile == FileResult("pending", "none", "none", NoFormatted)

\* transcripts of the uploaded files: two speakers, one speaker, no utterance
UploadedTranscripts ==
    {<<Utterance("A", <<"moshimoshi">>), Utterance("B", <<"hai">>)>>,
     <<Utterance("A", <<"moshimoshi">>)>>,
     << >>}

TranscribeInit ==
    /\ BatchIdle /\ CheckIdle /\ FormatIdle
    /\ tr_pc = "file"
    /\ total_files \in 0..MaxFiles
    /\ file_i = 0
    /\ transcript_status = "none"
    /\ elapsed = 0
    /\ processed_files = 0
    /\ error_files = 0
    /\ file_results = [k \in 1..total_files |-> PendingFile]
    /\ tmp_file = NoTmpFile

\* lines 110-112
NoFiles ==
    /\ tr_pc = "file"
    /\ total_files = 0
    /\ tr_pc' = "done"
    /\ UNCHANGED <<total_files, file_i, transcript_status, elapsed, processed_files,
                   error_files, file_results, tmp_file, batch_vars, check_vars,
                   format_vars>>

\* the finally clause deletes nothing
Finally_NoCleanup(tmp) == tmp

\* lines 126-129: if tmp_file_path and os.path.exists(tmp_file_path): os.unlink
Finally(tmp) ==
    IF tmp.recorded /\ tmp.exists THEN TmpFile(tmp.created, tmp.recorded, FALSE) ELSE tmp

\* the iteration of file k is over: lines 163-197 count it and the loop goes on;
\* the temporary file is left to the action
FinishFile(k, step, formatted, write_ok) ==
    LET returned == TranscribeReturns(step)
        \* if transcript_result: ... else: error_files += 1
        written == returned = "result" /\ write_ok
    IN  /\ file_results' = [file_results EXCEPT ![k] =
              FileResult(IF written THEN "written" ELSE "failed",
                         IF returned = "result" /\ ~write_ok THEN "write_failed" ELSE step,
                         returned,
                         IF returned = "result" THEN formatted ELSE NoFormatted)]
        /\ processed_files' = IF written THEN processed_files + 1 ELSE processed_files
        /\ error_files' = IF written THEN error_files ELSE error_files + 1
        /\ file_i' = k
        /\ tr_pc' = IF k = total_files THEN "done" ELSE "file"
        /\ transcript_status' = "none"
        /\ elapsed' = 0
        /\ UNCHANGED <<total_files, batch_vars, check_vars, format_vars>>

\* lines 72-82: transcriber.submit returns the job
SubmitJob ==
    /\ tr_pc = "file"
    /\ file_i < total_files
    /\ \E status \in TranscriptStatuses : transcript_status' = status
    /\ elapsed' = 0
    /\ tr_pc' = "polling"
    /\ tmp_file' = TmpFile(TRUE, TRUE, TRUE)                   \* lines 61-63
    /\ UNCHANGED <<total_files, file_i, processed_files, error_files, file_results,
                   batch_vars, check_vars, format_vars>>

\* lines 58-62 raise: before the temporary file is made, or in the write at
\* line 62, when the file is on disk and tmp_file_path still None; caught at
\* line 122
TmpFileRaises ==
    /\ tr_pc = "file"
    /\ file_i < total_files
    /\ \E created \in BOOLEAN : tmp_file' = Finally(TmpFile(created, FALSE, created))
    /\ FinishFile(file_i + 1, "exception", NoFormatted, TRUE)

\* lines 66-75 raise (transcriber.submit): caught at line 122
SubmitRaises ==
    /\ tr_pc = "file"
    /\ file_i < total_files
    /\ tmp_file' = Finally(TmpFile(TRUE, TRUE, TRUE))
    /\ FinishFile(file_i + 1, "exception", NoFormatted, TRUE)

\* lines 86-101: one turn of the polling loop
PollJob ==
    /\ tr_pc = "polling"
    /\ TranscribeStep(transcript_status, elapsed) = "poll"
    /\ \E status \in TranscriptStatuses : transcript_status' = status
    /\ \E latency \in PollLatencies : elapsed' = elapsed + polling_interval + latency
    /\ UNCHANGED <<tr_pc, total_files, file_i, processed_files, error_files,
                   file_results, tmp_file, batch_vars, check_vars, format_vars>>

\* aai.Transcript.get_by_id raises: caught at line 122
PollRaises ==
    /\ tr_pc = "polling"
    /\ TranscribeStep(transcript_status, elapsed) = "poll"
    /\ tmp_file' = Finally(tmp_file)
    /\ FinishFile(file_i + 1, "exception", NoFormatted, TRUE)

\* lines 88-90
JobTimesOut ==
    /\ tr_pc = "polling"
    /\ TranscribeStep(transcript_status, elapsed) = "timeout"
    /\ tmp_file' = Finally(tmp_file)
    /\ FinishFile(file_i + 1, "timeout", NoFormatted, TRUE)

\* lines 104-106
JobFailed ==
    /\ tr_pc = "polling"
    /\ TranscribeStep(transcript_status, elapsed) = "error"
    /\ tmp_file' = Finally(tmp_file)
    /\ FinishFile(file_i + 1, "error", NoFormatted, TRUE)

\* lines 112-120 raise (transcript.utterances is None): caught at line 122
ResultRaises ==
    /\ tr_pc = "polling"
    /\ TranscribeStep(transcript_status, elapsed) = "completed"
    /\ tmp_file' = Finally(tmp_file)
    /\ FinishFile(file_i + 1, "exception", NoFormatted, TRUE)

\* lines 108-120, then lines 163-190 of the caller; write_to_sheets may raise,
\* which line 195 catches
JobCompleted ==
    /\ tr_pc = "polling"
    /\ TranscribeStep(transcript_status, elapsed) = "completed"
    /\ tmp_file' = Finally(tmp_file)
    /\ \E utterances \in UploadedTranscripts : \E pick \in Picks(utterances) :
       \E write_ok \in BOOLEAN :
          FinishFile(file_i + 1, "completed", FormatUploaded(utterances, pick), write_ok)

TranscribeNext ==
    \/ NoFiles
    \/ TmpFileRaises
    \/ SubmitJob
    \/ SubmitRaises
    \/ PollJob
    \/ PollRaises
    \/ JobTimesOut
    \/ JobFailed
    \/ ResultRaises
    \/ JobCompleted

TranscribeSpec == TranscribeInit /\ [][TranscribeNext]_vars

\* The run is straight-line blocking code: as long as a step is possible the
\* program takes one (time.sleep returns, the clock advances).  Runs of at
\* most MaxLiveFiles files.
TranscribeLiveInit == TranscribeInit /\ total_files <= MaxLiveFiles
TranscribeLiveSpec ==
    TranscribeLiveInit /\ [][TranscribeNext]_vars /\ WF_vars(TranscribeNext)

(***************************************************************************)
(* Properties                                                              *)
(***************************************************************************)
CriteriaSet == HeaderSet \ SUMMARY_EXCLUDED
Position(h) == CHOOSE n \in 1..Len(SPREADSHEET_HEADERS) : SPREADSHEET_HEADERS[n] = h
Min(a, b) == IF a < b THEN a ELSE b
HasPattern(text, patterns) == \E n \in 1..Len(text) : text[n] \in patterns

\* a call of QualityChecker.check that returned a record
CheckReturnedRecord == ck_out.op = "check" /\ ck_out.outcome.has_record
\* the JSON object the model answered with
ResponseObject == ck_in.api_answer.response.obj

\* C1: every record produced - by a successful check, by run_check on any path
\* (success, empty input, completion failure, parse failure) and by the
\* short-conversation substitution - has exactly the keys of SPREADSHEET_HEADERS.
C1_SchemaComplete ==
    /\ CheckReturnedRecord => DOMAIN ck_out.outcome.record = HeaderSet
    /\ ck_out.op \in {"run_check", "no_conversation"} =>
          /\ ck_out.json.kind = "json_object"
          /\ DOMAIN ck_out.json.obj = HeaderSet

\* a successful check whose response held a key outside the header set and
\* lacked a header
C1_Witness ==
    /\ CheckReturnedRecord
    /\ "unknown_key" \in DOMAIN ResponseObject
    /\ "c28" \notin DOMAIN ResponseObject

\* C7 (as stated): with an abrupt-termination pattern and a normal-ending pattern
\* both in the text, the hung-up flag of the returned record is the empty string.
C7_FlagUnsetWhenPolite ==
    (/\ CheckReturnedRecord
     /\ HasPattern(ck_in.text, gachakiri_patterns)
     /\ HasPattern(ck_in.text, normal_end_patterns))
    => ck_out.outcome.record["gachakiri"] = EMPTY

\* C8: with an abrupt-termination pattern and no normal-ending pattern in the
\* text, the hung-up flag of the returned record is 問題あり whatever the model
\* answered for that key.
C8_FlagSetWhenAbrupt ==
    (/\ CheckReturnedRecord
     /\ HasPattern(ck_in.text, gachakiri_patterns)
     /\ ~HasPattern(ck_in.text, normal_end_patterns))
    => ck_out.outcome.record["gachakiri"] = ISSUE

\* the model answered 問題なし for the flag and the text ends abruptly
C8_Witness ==
    /\ CheckReturnedRecord
    /\ HasPattern(ck_in.text, gachakiri_patterns)
    /\ ~HasPattern(ck_in.text, normal_end_patterns)
    /\ "gachakiri" \in DOMAIN ResponseObject
    /\ ResponseObject["gachakiri"] = NO_ISSUE

\* C9: the summary of a returned record is the prefix followed by the criteria
\* at 問題あり in header order, at most SUMMARY_LIMIT of them, separated by ", ";
\* it is the no-issues marker when no criterion is at 問題あり.  The summary,
\* the agent name and the hung-up flag are never listed.
C9_SummaryDerived ==
    CheckReturnedRecord =>
        LET record == ck_out.outcome.record
            summary == record["summary"]
            marked == {h \in CriteriaSet : record[h] = ISSUE}
            listed == Min(Cardinality(marked), SUMMARY_LIMIT)
            Rank(h) == Cardinality({g \in marked : Position(g) < Position(h)}) + 1
        IN  IF marked = {} THEN summary = NO_PROBLEM_SUMMARY
            ELSE /\ Len(summary) = 2 * listed
                 /\ summary[1] = "mondai_ari_koumoku: "
                 /\ \A h \in marked : Rank(h) <= SUMMARY_LIMIT => summary[2 * Rank(h)] = h
                 /\ \A n \in 1..(listed - 1) : summary[2 * n + 1] = ", "

\* seven criteria at 問題あり, the model having also set the three other headers
C9_Witness ==
    /\ CheckReturnedRecord
    /\ Cardinality({h \in CriteriaSet : ck_out.outcome.record[h] = ISSUE}) = 7
    /\ Len(ck_out.outcome.record["summary"]) = 2 * SUMMARY_LIMIT
    /\ SUMMARY_EXCLUDED \subseteq DOMAIN ResponseObject
    /\ \A h \in SUMMARY_EXCLUDED : ResponseObject[h] = ISSUE

\* C10 (as stated): when the completion returns no response, or a response that
\* is not the text of a JSON object, check raises ProcessingError, and on a
\* parse failure the exception carries the response text.
C10_ProcessingErrorRaised ==
    (/\ ck_out.op = "check"
     /\ Truthy(ck_in.text) /\ ~StripIsEmpty(ck_in.text)
     /\ ~ck_in.api_answer.failed
     /\ ck_in.api_answer.response.kind # "json_object")
    => /\ ck_out.outcome.kind = "raise"
       /\ ~ck_out.outcome.has_record
       /\ ck_out.outcome.exc.type = "ProcessingError"
       /\ ck_in.api_answer.response.kind \in {"prose", "json_array"} =>
             ck_out.outcome.exc.response = ck_in.api_answer.response

(***************************************************************************)
(* Properties of a batch run                                               *)
(***************************************************************************)
RowCount == Len(target_rows)
\* the result_json of row k still in the buffer, and those handed to a flush
Buffered(k) ==
    {results_batch[n][2] : n \in {m \in 1..Len(results_batch) :
                                     results_batch[m][1] = target_rows[k].row_index}}
FlushedIn(f, k) ==
    {flushes[f].records[n][2] : n \in {m \in 1..Len(flushes[f].records) :
                                     flushes[f].records[m][1] = target_rows[k].row_index}}
Flushed(k) == UNION {FlushedIn(f, k) : f \in 1..Len(flushes)}
Contexts(errors) == {errors[n] : n \in 1..Len(errors)}
\* lines of the transcript that carry a role label
LabelledTurns(text) == Cardinality({n \in 1..Len(text) : text[n] \in RoleLabels})

\* C2 (as stated): every row whose evaluation failed has a record, buffered or
\* handed to a flush, in which every header holds a non-empty sentinel.
C2_FailedRowHasSentinelRecord ==
    \A k \in 1..RowCount :
        row_state[k] = "failed" =>
            \E json \in Buffered(k) \cup Flushed(k) :
                /\ DOMAIN json.obj = HeaderSet
                /\ \A h \in HeaderSet : Truthy(json.obj[h])

\* C3 (as stated): once the run has ended, every row after a row whose
\* processing raised has been iterated, and no record of such a row is left
\* in the buffer without having been handed to a flush.
C3_RowsAfterRaiseFlushed ==
    pc = "done" =>
        \A k \in 1..RowCount :
            row_state[k] = "raised" =>
                \A j \in (k + 1)..RowCount :
                    /\ row_state[j] # "pending"
                    /\ Buffered(j) = {}

\* C4 (as stated): at the end of the run no buffered record is left that was
\* not handed to a flush.
C4_NothingLeftBuffered == pc = "done" => results_batch = << >>

\* C5 (as stated): a failure of the store - on the read, on opening the sheet
\* or on a flush - is reported and no row is iterated after it.
C5_StoreFailureAborts ==
    /\ BATCH_CONTEXT \in Contexts(reported) => i = 0 /\ pc = "done"
    /\ \A f \in 1..Len(flushes) :
          ~flushes[f].ok =>
              /\ SHEET_UPDATE_CONTEXT \in Contexts(reported)
              /\ i = flushes[f].after_row

\* C6 (as stated): a row whose transcript has fewer than three labelled turns
\* has no completion call and a record - summary 会話記録なし, every other
\* header "" - in the buffer or in a flush.
C6_ShortRowSubstituted ==
    \A k \in 1..i :
        (/\ target_rows[k].transcript # NotAStr
         /\ LabelledTurns(target_rows[k].transcript) < MIN_UTTERANCES)
        => /\ completion_calls[k] = << >>
           /\ \E json \in Buffered(k) \cup Flushed(k) :
                 /\ json.obj["summary"] = NO_CONVERSATION
                 /\ \A h \in HeaderSet \ {"summary"} : json.obj[h] = EMPTY

(***************************************************************************)
(* Properties of the completion calls of one check                         *)
(***************************************************************************)
\* a call of QualityChecker.check on a text that is not blank
CheckRan == ck_out.op = "check" /\ Truthy(ck_in.text) /\ ~StripIsEmpty(ck_in.text)
CheckCalls == ck_out.outcome.calls
RubricCalls(calls) == {n \in 1..Len(calls) : calls[n].purpose = "rubric"}
NameCalls(calls) == {n \in 1..Len(calls) : calls[n].purpose = "name"}

\* C11: when the completion port fails during name resolution, check raises
\* nothing on that account: the rubric call is still issued, with the plain
\* rubric instruction, and a well-formed rubric answer yields a record whose
\* agent name is what the model answered (or "").
C11_NameFailureNotPropagated ==
    (CheckRan /\ ck_in.roster # << >> /\ ck_in.name_answer.failed) =>
        /\ RubricCalls(CheckCalls) # {}
        /\ \A n \in RubricCalls(CheckCalls) : CheckCalls[n].name_in_prompt = EMPTY
        /\ ck_out.outcome.kind = "raise" => ck_in.api_answer \in FailingAnswers
        /\ ck_in.api_answer \notin FailingAnswers =>
              /\ ck_out.outcome.has_record
              /\ ck_out.outcome.record["agent_name"] =
                    (IF "agent_name" \in DOMAIN ResponseObject
                     THEN ResponseObject["agent_name"] ELSE EMPTY)

\* name resolution failed and the check still returned a record
C11_Witness ==
    /\ CheckRan /\ ck_in.roster # << >> /\ ck_in.name_answer.failed
    /\ ck_out.outcome.has_record
    /\ Len(CheckCalls) = 2

\* C12: the rubric call is the last call of a check and the only one of its
\* kind; with a roster the name call precedes it; the name in its instruction
\* is the name that resolution returned, and no name when resolution returned
\* "" or the roster is empty.
C12_RubricAfterNameResolution ==
    CheckRan =>
        /\ RubricCalls(CheckCalls) = {Len(CheckCalls)}
        /\ NameCalls(CheckCalls) = (IF ck_in.roster # << >> THEN {1} ELSE {})
        /\ CheckCalls[Len(CheckCalls)].name_in_prompt =
              (IF ck_in.roster # << >> /\ ~ck_in.name_answer.failed
               THEN ck_in.name_answer.name ELSE EMPTY)

\* the name call returned a roster member and the rubric call carried it
C12_Witness ==
    /\ CheckRan
    /\ Len(CheckCalls) = 2
    /\ CheckCalls[1].purpose = "name"
    /\ CheckCalls[2] = Call("rubric", Str("suzuki"))

(***************************************************************************)
(* Properties of the completion calls of a batch run                       *)
(***************************************************************************)
\* the iteration of a row is over
Settled(k) == row_state[k] # "pending"

\* C13: in a batch run at most one rubric call is issued for a row, a row
\* whose evaluation failed included, and once the iteration of a row is over
\* neither its outcome nor its completion calls change again.
C13_SingleRetryBoundary ==
    /\ [](\A k \in 1..RowCount : Cardinality(RubricCalls(completion_calls[k])) <= 1)
    /\ [][\A k \in 1..RowCount :
             Settled(k) => /\ row_state'[k] = row_state[k]
                           /\ completion_calls'[k] = completion_calls[k]]_vars

\* the run ended after a row whose rubric call failed, and later rows ran
C13_Witness ==
    /\ pc = "done"
    /\ \E k \in 1..RowCount :
          /\ row_state[k] = "failed"
          /\ Cardinality(RubricCalls(completion_calls[k])) = 1
          /\ k < RowCount
          /\ row_state[RowCount] = "evaluated"

(***************************************************************************)
(* Properties of the records handed to the store                           *)
(***************************************************************************)
\* the records in the buffer and those handed to a flush
BufferedRecords == {results_batch[n][2].obj : n \in 1..Len(results_batch)}
FlushedRecords ==
    UNION {{flushes[f].records[n][2].obj : n \in 1..Len(flushes[f].records)} :
              f \in 1..Len(flushes)}
\* "", 問題あり, 問題なし and the error sentinel 処理エラー
VerdictValues == {EMPTY, ISSUE, NO_ISSUE, Str("shori_error")}

\* C14 (as stated): the value of every criterion of every record buffered for
\* the store is "", 問題あり, 問題なし or an error sentinel.
C14_VerdictValuesBounded ==
    \A record \in BufferedRecords \cup FlushedRecords :
        \A h \in CriteriaSet : record[h] \in VerdictValues

(***************************************************************************)
(* Properties of the record a check returns                                *)
(***************************************************************************)
\* the name that resolution returned to check
ResolvedName ==
    IF ck_in.roster # << >> /\ ~ck_in.name_answer.failed
    THEN ck_in.name_answer.name ELSE EMPTY

\* C15: when name resolution returned a non-empty name, the agent-name field
\* of the returned record is that name, whatever the model answered for it.
C15_ResolvedNameOverwrites ==
    (CheckReturnedRecord /\ Truthy(ResolvedName)) =>
        ck_out.outcome.record["agent_name"] = ResolvedName

\* the model answered another roster member for the agent-name field
C15_Witness ==
    /\ CheckReturnedRecord
    /\ ResolvedName = Str("suzuki")
    /\ "agent_name" \in DOMAIN ResponseObject
    /\ ResponseObject["agent_name"] = Str("tanaka")

\* C16: the returned record has no key outside the header set, and every
\* criterion the response does not mention is present with the value "".
C16_ProjectedOntoHeaders ==
    CheckReturnedRecord =>
        /\ DOMAIN ck_out.outcome.record \subseteq HeaderSet
        /\ \A h \in CriteriaSet \ DOMAIN ResponseObject :
              /\ h \in DOMAIN ck_out.outcome.record
              /\ ck_out.outcome.record[h] = EMPTY

\* the response held a key outside the header set and marked two criteria only
C16_Witness ==
    /\ CheckReturnedRecord
    /\ DOMAIN ResponseObject = {"c01", "c03", "unknown_key"}
    /\ ck_out.outcome.record["c02"] = EMPTY

(***************************************************************************)
(* Properties of the rows of a batch run                                   *)
(***************************************************************************)
\* C17 (as stated): every iterated row whose transcript is empty or too short
\* has a sentinel record - one whose summary is not "" - in the buffer or in
\* a flush.
C17_EmptyRowSubstituted ==
    \A k \in 1..i :
        (/\ target_rows[k].transcript # NotAStr
         /\ IsConversationTooShort(target_rows[k].transcript))
        => \E json \in Buffered(k) \cup Flushed(k) : Truthy(json.obj["summary"])

\* rows among the first k for which a record was buffered
Succeeded(k) == Cardinality({j \in 1..k : row_state[j] \in {"skipped", "evaluated"}})

\* C18 (as stated): for every row the loop has iterated, whatever its outcome,
\* a progress event was emitted after it, carrying the number of rows
\* processed so far and the number of rows that succeeded.
C18_ProgressAfterEveryRow ==
    \A k \in 1..i :
        \E n \in 1..Len(metrics) :
            /\ metrics[n].after_row = k
            /\ metrics[n].processed = k
            /\ metrics[n].success = Succeeded(k)

(***************************************************************************)
(* Properties of a transcription run                                       *)
(***************************************************************************)
FilesIn(state) == {k \in 1..total_files : file_results[k].state = state}

\* C19: a file whose job reached Error status, or was still pending when the
\* timeout had elapsed, got no result from transcribe_with_speaker_diarization
\* and is a failed file; failed files are counted in error_files, written ones
\* in processed_files; every file before the current one has had its turn,
\* and the run is over only when every file has - a failed file stops none.
C19_FailedFileDoesNotStopRun ==
    /\ \A k \in 1..total_files :
          /\ file_results[k].cause \in {"timeout", "error"} =>
                /\ file_results[k].returned = "None"
                /\ file_results[k].state = "failed"
          /\ (file_results[k].state # "pending") = (k <= file_i)
    /\ error_files = Cardinality(FilesIn("failed"))
    /\ processed_files = Cardinality(FilesIn("written"))
    /\ tr_pc = "done" => file_i = total_files

\* the run ended; the first file timed out and the last one was written
C19_Witness ==
    /\ tr_pc = "done"
    /\ total_files > 1
    /\ file_results[1].cause = "timeout"
    /\ file_results[total_files].state = "written"
    /\ error_files = 1

(***************************************************************************)
(* Properties of the formatted transcript                                  *)
(***************************************************************************)
\* the role label the formatted text gives utterance n: the text opens with
\* the heading and its newline, and each utterance takes four atoms
LabelAt(n) == fmt_out.result.formatted_transcript[2 + 4 * (n - 1) + 1]
\* the tags at least one of whose utterances is labelled as the agent's
AgentTags ==
    {fmt_in.utterances[n].speaker : n \in {m \in 1..Len(fmt_in.utterances) :
                                             LabelAt(m) = "[teleapo]"}}

RECURSIVE FlushedPairs(_)
FlushedPairs(f) == IF f = 0 THEN << >> ELSE FlushedPairs(f - 1) \o flushes[f].records
AllPairs == FlushedPairs(Len(flushes)) \o results_batch
\* how many times row k's record was handed to a flush
TimesFlushed(k) ==
    Cardinality({n \in 1..Len(FlushedPairs(Len(flushes))) :
                    FlushedPairs(Len(flushes))[n][1] = target_rows[k].row_index})

\* C21: no row's record is handed to more than one flush, a record that was
\* handed to a flush - successful or failed - is no longer in the buffer, and
\* right after a flush attempt the buffer is empty.
C21_FlushedAtMostOnce ==
    /\ \A k \in 1..RowCount :
          /\ TimesFlushed(k) <= 1
          /\ TimesFlushed(k) = 1 => Buffered(k) = {}
    /\ \A f \in 1..Len(flushes) : flushes[f].after_row = i => results_batch = << >>

\* a flush failed and a later flush was made
C21_Witness ==
    \E f \in 1..Len(flushes) :
        /\ ~flushes[f].ok
        /\ f < Len(flushes)
        /\ flushes[Len(flushes)].ok

\* C22: no flush is handed more than batch_size records - the buffer is at
\* its fullest when it is flushed - and between two rows the buffer holds
\* fewer than batch_size records.
C22_BufferBounded ==
    /\ \A f \in 1..Len(flushes) : Len(flushes[f].records) <= batch_size
    /\ Len(results_batch) < batch_size

\* a record waits in the buffer while later rows are empty, raise or fail
C22_Witness ==
    /\ batch_size > 1
    /\ Len(results_batch) = batch_size - 1
    /\ \E k \in 1..i : row_state[k] = "failed"
    /\ \E k \in 1..i : row_state[k] \in {"empty", "raised"}

\* C23: the rows are iterated one at a time in store order - row k is settled
\* exactly when the loop has passed it - the flush a row triggers holds
\* records of that row and earlier ones only, and the records appear in the
\* flushes and in the buffer in the order of their rows.
C23_RowsInStoreOrder ==
    /\ \A k \in 1..RowCount : Settled(k) = (k <= i)
    /\ \A f \in 1..Len(flushes) :
          \A n \in 1..Len(flushes[f].records) :
              flushes[f].records[n][1] <= target_rows[flushes[f].after_row].row_index
    /\ \A n \in 1..Len(AllPairs) : \A m \in 1..(n - 1) : AllPairs[m][1] < AllPairs[n][1]

\* two records in one flush, a third one in a later flush
C23_Witness ==
    /\ Len(flushes) = 2
    /\ Len(flushes[1].records) = 2
    /\ Len(flushes[2].records) = 1

\* C24: at every metrics update success <= processed <= rows iterated, and
\* success is the number of rows so far for which a record was appended -
\* gate-skipped rows included, whether or not the flush of the record failed;
\* the same holds of the counters between two rows.
C24_CountersConsistent ==
    /\ \A n \in 1..Len(metrics) :
          /\ metrics[n].success <= metrics[n].processed
          /\ metrics[n].processed <= metrics[n].after_row
          /\ metrics[n].success = Succeeded(metrics[n].after_row)
    /\ total_success <= total_processed
    /\ total_processed <= i
    /\ total_success = Len(AllPairs)
    /\ total_success = Succeeded(i)

\* a gate-skipped row whose flush failed is counted, after an uncounted row
C24_Witness ==
    /\ \E k \in 1..i : row_state[k] = "skipped" /\ \E f \in 1..Len(flushes) :
          ~flushes[f].ok /\ FlushedIn(f, k) # {}
    /\ total_success = 1
    /\ total_processed = 2
    /\ i = 3

\* C25: run_quality_check_batch is never left by an exception: a failure of
\* the read or of opening the sheet ends the run reported, and failures of a
\* row, of an evaluation and of a flush are reported while the run goes on.
C25_NeverRaises ==
    /\ pc \in {"start", "loop", "done"}
    /\ BATCH_CONTEXT \in Contexts(reported) => pc = "done"
    /\ \A k \in 1..RowCount :
          /\ row_state[k] = "raised" => ROW_CONTEXT \in Contexts(reported)
          /\ row_state[k] = "failed" => QUALITY_CHECK_CONTEXT \in Contexts(reported)
    /\ \A f \in 1..Len(flushes) :
          ~flushes[f].ok => SHEET_UPDATE_CONTEXT \in Contexts(reported)

\* a run that ended after a row raised, an evaluation failed and a flush failed
C25_Witness ==
    /\ pc = "done"
    /\ {ROW_CONTEXT, QUALITY_CHECK_CONTEXT, SHEET_UPDATE_CONTEXT} \subseteq Contexts(reported)

\* C26: every flush attempt, successful or failed, slept before it returned
\* to the loop: 1 second after a write, 2 seconds after a failed one.
C26_PauseAfterFlush ==
    \A f \in 1..Len(flushes) :
        /\ flushes[f].slept >= SLEEP_AFTER_WRITE
        /\ flushes[f].slept = (IF flushes[f].ok THEN SLEEP_AFTER_WRITE ELSE SLEEP_AFTER_ERROR)

\* a failed flush was followed by the evaluation of the next row
C26_Witness ==
    \E f \in 1..Len(flushes) :
        /\ ~flushes[f].ok
        /\ flushes[f].after_row < i
        /\ completion_calls[flushes[f].after_row + 1] # << >>

(***************************************************************************)
(* Properties of one transcription call                                    *)
(***************************************************************************)
\* transcribe_with_speaker_diarization has returned for file file_i
TranscribeReturned == tr_pc \in {"file", "done"} /\ file_i >= 1
LastCause == file_results[file_i].cause

Polling == tr_pc = "polling"
PendingJob == transcript_status \in PendingStatuses

\* C28: the polling loop is always left; it is left by the step that follows
\* a Completed or Error status, with no further poll; a job still pending is
\* polled again while the timeout has not elapsed, and at the first test
\* that finds it elapsed the file is given up, with no further poll.
C28_PollingTerminates ==
    /\ Polling ~> ~Polling
    /\ [][(Polling /\ ~PendingJob) => ~Polling']_vars
    /\ [][(Polling /\ PendingJob /\ elapsed > timeout) =>
              /\ ~Polling'
              /\ file_results'[file_i + 1].cause = "timeout"]_vars
    /\ [][(Polling /\ PendingJob /\ elapsed <= timeout) =>
              file_results'[file_i + 1].cause # "timeout"]_vars

\* a job that stayed pending through every poll was given up after the timeout
C28_Witness ==
    /\ TranscribeReturned
    /\ LastCause = "timeout"
    /\ file_i = total_files

====
